---------------------------- MODULE Spec2Model ----------------------------
(***************************************************************************)
(* Blogicum: the post visibility filter and the ownership checks of the    *)
(* blog views (blog/mixins.py, blog/views.py) over the content store of    *)
(* blog/models.py.  The store is the three tables Post, Category and       *)
(* Comment.  Every view is an action: it reads the store, possibly changes *)
(* it, and leaves the request it served and the response it produced; the  *)
(* next request is served once that response has been returned.            *)
(***************************************************************************)
EXTENDS Integers, Sequences, FiniteSets

(* ------------------------------ bounds -------------------------------- *)
MaxPosts == 1
MaxComments == 1
MaxTime == 1
MaxQueryPosts == 2

(* --------------------------- value domains ---------------------------- *)
Users == {"u1", "u2"}
AnonymousUser == "anon"
Identities == Users \cup {AnonymousUser}
Usernames == Users \cup {"nobody"}
Slugs == {"c1", "c2"}
NoCategory == "null"
Texts == {"a", "b"}
PostIds == 1..MaxPosts
CommentIds == 1..MaxComments
UrlPostIds == 0..MaxPosts
UrlCommentIds == 0..MaxComments
Times == 0..MaxTime
PageSize == 10

VARIABLES posts, categories, comments, now, request, response

vars == <<posts, categories, comments, now, request, response>>

(* ------------------------------ models -------------------------------- *)
Post == [author : Users, is_published : BOOLEAN, pub_date : Times,
         category : Slugs \cup {NoCategory}]

Category == [is_published : BOOLEAN]

Comment == [author : Users, post : PostIds, text : Texts]

PostForm == [is_published : BOOLEAN, pub_date : Times, category : Slugs]

CommentForm == [text : Texts]

NextPk(table) ==
    IF DOMAIN table = {} THEN 1
    ELSE (CHOOSE m \in DOMAIN table : \A k \in DOMAIN table : k <= m) + 1

Insert(table, pk, row) ==
    [k \in DOMAIN table \cup {pk} |-> IF k = pk THEN row ELSE table[k]]

Delete(table, pks) ==
    [k \in DOMAIN table \ pks |-> table[k]]

(* -------------------------- request, response ------------------------- *)
Req(view, method, valid, user, post_id, comment_id, name) ==
    [view |-> view, method |-> method, valid |-> valid, user |-> user,
     post_id |-> post_id, comment_id |-> comment_id, name |-> name]

NoRequest == Req("none", "GET", FALSE, AnonymousUser, 0, 0, "none")

Url(name, post_id, username) ==
    [name |-> name, post_id |-> post_id, username |-> username]

Resp(status, template, to, objects) ==
    [status |-> status, template |-> template, to |-> to, objects |-> objects]

NoResponse == Resp(0, "none", Url("none", 0, "none"), <<>>)

Render(template, objects) == Resp(200, template, Url("none", 0, "none"), objects)

Http404 == Resp(404, "pages/404.html", Url("none", 0, "none"), <<>>)

ServerError == Resp(500, "pages/500.html", Url("none", 0, "none"), <<>>)

redirect(to) == Resp(302, "none", to, <<>>)

redirect_to_login == redirect(Url("login", 0, "none"))

Idle == request = NoRequest

Serve(req, resp) ==
    /\ request' = req
    /\ response' = resp

Respond ==
    /\ ~Idle
    /\ request' = NoRequest
    /\ response' = NoResponse
    /\ UNCHANGED <<posts, categories, comments, now>>

(* ------------------------------ mixins -------------------------------- *)
is_anonymous(user) == user = AnonymousUser

PublicFilter_NoCategoryGate(p) ==
    /\ posts[p].is_published
    /\ posts[p].pub_date <= now

PublicFilter_NullCategoryPasses(p) ==
    /\ posts[p].is_published
    /\ posts[p].pub_date <= now
    /\ (posts[p].category \in DOMAIN categories
            => categories[posts[p].category].is_published)

PublicFilter(p) ==
    /\ posts[p].is_published
    /\ posts[p].pub_date <= now
    /\ posts[p].category \in DOMAIN categories
    /\ categories[posts[p].category].is_published

FilteredIds_AnyUser(base, user, author_access_flag) ==
    {p \in base :
        \/ PublicFilter(p)
        \/ (author_access_flag /\ ~is_anonymous(user))}

FilteredIds(base, user, author_access_flag) ==
    {p \in base :
        \/ PublicFilter(p)
        \/ (author_access_flag /\ ~is_anonymous(user)
            /\ posts[p].author = user)}

Permutations(S) ==
    {f \in [1..Cardinality(S) -> S] :
        \A i, j \in DOMAIN f : f[i] = f[j] => i = j}

order_by_pub_date_desc(S) ==
    {f \in Permutations(S) :
        \A i, j \in DOMAIN f :
            i < j => posts[f[i]].pub_date >= posts[f[j]].pub_date}

get_filtered_related_posts(base, user, author_access_flag) ==
    order_by_pub_date_desc(FilteredIds(base, user, author_access_flag))

get_success_url(post_id) == Url("blog:post_detail", post_id, "none")

get_page(seq, number) ==
    LET count == Len(seq)
        num_pages == IF count = 0 THEN 1
                     ELSE (count + PageSize - 1) \div PageSize
        n == IF number < 1 THEN 1
             ELSE IF number > num_pages THEN num_pages ELSE number
        first == (n - 1) * PageSize + 1
        last == IF n * PageSize < count THEN n * PageSize ELSE count
    IN  SubSeq(seq, first, last)

author_posts(username) == {p \in DOMAIN posts : posts[p].author = username}

category_posts_All(slug) == DOMAIN posts

category_posts(slug) == {p \in DOMAIN posts : posts[p].category = slug}

(* ------------------------------ read views ---------------------------- *)
PostListView(user) ==
    /\ \E qs \in get_filtered_related_posts(DOMAIN posts, user, FALSE) :
          Serve(Req("index", "GET", FALSE, user, 0, 0, "none"),
                Render("blog/index.html", get_page(qs, 1)))
    /\ UNCHANGED <<posts, categories, comments, now>>

UserDetailView(user, username) ==
    /\ IF username \notin Users
       THEN Serve(Req("profile", "GET", FALSE, user, 0, 0, username), Http404)
       ELSE \E qs \in get_filtered_related_posts(author_posts(username), user, TRUE) :
               Serve(Req("profile", "GET", FALSE, user, 0, 0, username),
                     Render("blog/profile.html", get_page(qs, 1)))
    /\ UNCHANGED <<posts, categories, comments, now>>

CategoryQueryset == {s \in DOMAIN categories : categories[s].is_published}

CategoryDetailView(user, slug) ==
    /\ IF slug \notin CategoryQueryset
       THEN Serve(Req("category", "GET", FALSE, user, 0, 0, slug), Http404)
       ELSE \E qs \in get_filtered_related_posts(category_posts(slug), user, FALSE) :
               Serve(Req("category", "GET", FALSE, user, 0, 0, slug),
                     Render("blog/category.html", get_page(qs, 1)))
    /\ UNCHANGED <<posts, categories, comments, now>>

PostDetailView_dispatch_NoAuthorAccess(user, post_id) ==
    IF post_id \in FilteredIds(DOMAIN posts, user, FALSE)
    THEN Render("blog/detail.html", <<post_id>>)
    ELSE Http404

PostDetailView_dispatch(user, post_id) ==
    IF post_id \in FilteredIds(DOMAIN posts, user, TRUE)
    THEN Render("blog/detail.html", <<post_id>>)
    ELSE Http404

PostDetailView(user, post_id) ==
    /\ Serve(Req("post_detail", "GET", FALSE, user, post_id, 0, "none"),
             PostDetailView_dispatch(user, post_id))
    /\ UNCHANGED <<posts, categories, comments, now>>

(* ------------------------------ post views ---------------------------- *)
Handled(resp, new_posts, new_comments) ==
    [response |-> resp, posts |-> new_posts, comments |-> new_comments]

is_valid(valid, form) == valid /\ form.category \in DOMAIN categories

PostCreateView_dispatch(user, method, valid, form) ==
    IF is_anonymous(user)
    THEN Handled(redirect_to_login, posts, comments)
    ELSE IF method = "GET" \/ ~is_valid(valid, form)
    THEN Handled(Render("blog/create.html", <<>>), posts, comments)
    ELSE Handled(redirect(Url("blog:profile", 0, user)),
                 Insert(posts, NextPk(posts),
                        [author |-> user,
                         is_published |-> form.is_published,
                         pub_date |-> form.pub_date,
                         category |-> form.category]),
                 comments)

PostCreateView(user, method, valid, form) ==
    /\ LET h == PostCreateView_dispatch(user, method, valid, form)
       IN  /\ DOMAIN h.posts \subseteq PostIds
           /\ Serve(Req("post_create", method, valid, user, 0, 0, "none"), h.response)
           /\ posts' = h.posts
           /\ UNCHANGED <<categories, comments, now>>

PostEditView_dispatch(user, method, valid, post_id, form) ==
    IF method = "POST" /\ is_anonymous(user)
    THEN Handled(redirect(Url("blog:post_detail", post_id, "none")), posts, comments)
    ELSE IF post_id \notin FilteredIds(DOMAIN posts, user, TRUE)
    THEN Handled(Http404, posts, comments)
    ELSE IF method = "GET" \/ ~is_valid(valid, form)
    THEN Handled(Render("blog/create.html", <<post_id>>), posts, comments)
    ELSE IF user # posts[post_id].author
    THEN Handled(redirect(Url("blog:post_detail", post_id, "none")), posts, comments)
    ELSE Handled(redirect(get_success_url(post_id)),
                 [posts EXCEPT ![post_id] =
                     [author |-> @.author,
                      is_published |-> form.is_published,
                      pub_date |-> form.pub_date,
                      category |-> form.category]],
                 comments)

PostEditView(user, method, valid, post_id, form) ==
    /\ LET h == PostEditView_dispatch(user, method, valid, post_id, form)
       IN  /\ Serve(Req("post_edit", method, valid, user, post_id, 0, "none"), h.response)
           /\ posts' = h.posts
           /\ UNCHANGED <<categories, comments, now>>

PostDeleteQueryset_AnyAuthor(user) ==
    IF ~is_anonymous(user) THEN DOMAIN posts ELSE {}

PostDeleteQueryset(user) ==
    IF ~is_anonymous(user)
    THEN {p \in DOMAIN posts : posts[p].author = user}
    ELSE {}

PostDeleteView_dispatch(user, method, post_id) ==
    IF post_id \notin PostDeleteQueryset(user)
    THEN Handled(Http404, posts, comments)
    ELSE IF method = "GET"
    THEN Handled(Render("blog/create.html", <<post_id>>), posts, comments)
    ELSE Handled(redirect(Url("blog:index", 0, "none")),
                 Delete(posts, {post_id}),
                 Delete(comments,
                        {c \in DOMAIN comments : comments[c].post = post_id}))

PostDeleteView(user, method, post_id) ==
    /\ LET h == PostDeleteView_dispatch(user, method, post_id)
       IN  /\ Serve(Req("post_delete", method, FALSE, user, post_id, 0, "none"), h.response)
           /\ posts' = h.posts
           /\ comments' = h.comments
           /\ UNCHANGED <<categories, now>>

(* ----------------------------- comment views -------------------------- *)
CommentCreateView_dispatch(user, method, valid, post_id, form) ==
    IF post_id \notin DOMAIN posts
    THEN Handled(Http404, posts, comments)
    ELSE IF is_anonymous(user)
    THEN Handled(redirect_to_login, posts, comments)
    ELSE IF method = "GET" \/ ~valid
    THEN Handled(Render("blog/comment.html", <<>>), posts, comments)
    ELSE Handled(redirect(get_success_url(post_id)),
                 posts,
                 Insert(comments, NextPk(comments),
                        [author |-> user, post |-> post_id, text |-> form.text]))

CommentCreateView(user, method, valid, post_id, form) ==
    /\ LET h == CommentCreateView_dispatch(user, method, valid, post_id, form)
       IN  /\ DOMAIN h.comments \subseteq CommentIds
           /\ Serve(Req("comment_create", method, valid, user, post_id, 0, "none"),
                    h.response)
           /\ comments' = h.comments
           /\ UNCHANGED <<posts, categories, now>>

CommentQueryset(user) == {c \in DOMAIN comments : comments[c].author = user}

CommentUpdateView_dispatch(user, method, valid, post_id, comment_id, form) ==
    IF is_anonymous(user)
    THEN Handled(redirect_to_login, posts, comments)
    ELSE IF comment_id \notin CommentQueryset(user)
    THEN Handled(Http404, posts, comments)
    ELSE IF user # comments[comment_id].author
    THEN Handled(ServerError, posts, comments)
    ELSE IF method = "GET" \/ ~valid
    THEN Handled(Render("blog/comment.html", <<>>), posts, comments)
    ELSE Handled(redirect(get_success_url(post_id)),
                 posts,
                 [comments EXCEPT ![comment_id].text = form.text])

CommentUpdateView(user, method, valid, post_id, comment_id, form) ==
    /\ LET h == CommentUpdateView_dispatch(user, method, valid, post_id, comment_id, form)
       IN  /\ Serve(Req("comment_edit", method, valid, user, post_id, comment_id, "none"),
                    h.response)
           /\ comments' = h.comments
           /\ UNCHANGED <<posts, categories, now>>

CommentDeleteView_dispatch(user, method, post_id, comment_id) ==
    IF is_anonymous(user)
    THEN Handled(redirect_to_login, posts, comments)
    ELSE IF comment_id \notin CommentQueryset(user)
    THEN Handled(Http404, posts, comments)
    ELSE IF user # comments[comment_id].author
    THEN Handled(ServerError, posts, comments)
    ELSE IF method = "GET"
    THEN Handled(Render("blog/comment.html", <<>>), posts, comments)
    ELSE Handled(redirect(get_success_url(post_id)),
                 posts,
                 Delete(comments, {comment_id}))

CommentDeleteView(user, method, post_id, comment_id) ==
    /\ LET h == CommentDeleteView_dispatch(user, method, post_id, comment_id)
       IN  /\ Serve(Req("comment_delete", method, FALSE, user, post_id, comment_id, "none"),
                    h.response)
           /\ comments' = h.comments
           /\ UNCHANGED <<posts, categories, now>>

(* ------------------------ admin site and the clock -------------------- *)
CategoryAdmin_save(slug, is_published) ==
    /\ categories' = Insert(categories, slug, [is_published |-> is_published])
    /\ categories' # categories
    /\ UNCHANGED <<posts, comments, now, request, response>>

CategoryAdmin_delete(slug) ==
    /\ slug \in DOMAIN categories
    /\ categories' = Delete(categories, {slug})
    /\ posts' = [p \in DOMAIN posts |->
                    IF posts[p].category = slug
                    THEN [posts[p] EXCEPT !.category = NoCategory]
                    ELSE posts[p]]
    /\ UNCHANGED <<comments, now, request, response>>

Tick ==
    /\ now < MaxTime
    /\ now' = now + 1
    /\ UNCHANGED <<posts, categories, comments, request, response>>

(* ------------------------------ the system ---------------------------- *)
Methods == {"GET", "POST"}

Submissions(forms) ==
    [method : Methods, valid : {FALSE}, form : {CHOOSE f \in forms : TRUE}]
        \cup [method : {"POST"}, valid : {TRUE}, form : forms]

Init ==
    /\ posts = <<>>
    /\ categories = [s \in Slugs |-> [is_published |-> TRUE]]
    /\ comments = <<>>
    /\ now = 0
    /\ request = NoRequest
    /\ response = NoResponse

ReadViews ==
    \/ Idle /\ \E user \in Identities : PostListView(user)
    \/ Idle /\ \E user \in Identities, username \in Usernames : UserDetailView(user, username)
    \/ Idle /\ \E user \in Identities, slug \in Slugs : CategoryDetailView(user, slug)
    \/ Idle /\ \E user \in Identities, post_id \in UrlPostIds : PostDetailView(user, post_id)

PostViews(forms) ==
    \/ Idle /\ \E user \in Identities, s \in Submissions(forms) :
          PostCreateView(user, s.method, s.valid, s.form)
    \/ Idle /\ \E user \in Identities, s \in Submissions(forms), post_id \in UrlPostIds :
          PostEditView(user, s.method, s.valid, post_id, s.form)
    \/ Idle /\ \E user \in Identities, method \in Methods, post_id \in UrlPostIds :
          PostDeleteView(user, method, post_id)

CommentViews ==
    \/ Idle /\ \E user \in Identities, s \in Submissions(CommentForm), post_id \in UrlPostIds :
          CommentCreateView(user, s.method, s.valid, post_id, s.form)
    \/ Idle /\ \E user \in Identities, s \in Submissions(CommentForm), post_id \in UrlPostIds,
          comment_id \in UrlCommentIds :
          CommentUpdateView(user, s.method, s.valid, post_id, comment_id, s.form)
    \/ Idle /\ \E user \in Identities, method \in Methods, post_id \in UrlPostIds,
          comment_id \in UrlCommentIds :
          CommentDeleteView(user, method, post_id, comment_id)

Admin ==
    \/ Idle /\ \E slug \in Slugs, is_published \in BOOLEAN : CategoryAdmin_save(slug, is_published)
    \/ Idle /\ \E slug \in Slugs : CategoryAdmin_delete(slug)

Next ==
    \/ ReadViews
    \/ PostViews(PostForm)
    \/ CommentViews
    \/ Admin
    \/ Idle /\ Tick
    \/ Respond

Spec == Init /\ [][Next]_vars

(* Visibility: the posts, the categories and the clock in full, no comments. *)
NextVisibility ==
    \/ ReadViews
    \/ PostViews(PostForm)
    \/ Admin
    \/ Idle /\ Tick
    \/ Respond

SpecVisibility == Init /\ [][NextVisibility]_vars

(* Ownership: every mutation view; the post forms vary the post's own flag. *)
OwnershipPostForm == {f \in PostForm : f.pub_date = 0 /\ f.category = "c1"}

NextOwnership ==
    \/ Idle /\ \E user \in Identities, post_id \in UrlPostIds : PostDetailView(user, post_id)
    \/ PostViews(OwnershipPostForm)
    \/ CommentViews
    \/ Respond

SpecOwnership == Init /\ [][NextOwnership]_vars

(* Query: the list views applied to any store of at most MaxQueryPosts posts. *)
InitQuery ==
    /\ \E n \in 0..MaxQueryPosts : posts \in [1..n -> Post]
    /\ categories \in [Slugs -> Category]
    /\ \A p \in DOMAIN posts : posts[p].category \in DOMAIN categories \cup {NoCategory}
    /\ comments = <<>>
    /\ now \in Times
    /\ request = NoRequest
    /\ response = NoResponse

NextQuery ==
    \/ Idle /\ \E user \in Identities : PostListView(user)
    \/ Idle /\ \E user \in Identities, username \in Usernames : UserDetailView(user, username)
    \/ Idle /\ \E user \in Identities, slug \in Slugs : CategoryDetailView(user, slug)
    \/ Respond

SpecQuery == InitQuery /\ [][NextQuery]_vars

(* ------------------------------ properties ---------------------------- *)
Returned(p) ==
    /\ response.status = 200
    /\ \E i \in DOMAIN response.objects : response.objects[i] = p

ReturnedSet == {response.objects[i] : i \in DOMAIN response.objects}

FilterViews == {"index", "category", "profile", "post_detail", "post_edit"}

ListViews == {"index", "category", "profile"}

MutationViews == {"post_create", "post_edit", "post_delete",
                  "comment_create", "comment_edit", "comment_delete"}

NotYetVisible(p) == ~posts[p].is_published \/ posts[p].pub_date > now

CategoryPublished(p) ==
    /\ posts[p].category \in DOMAIN categories
    /\ categories[posts[p].category].is_published

CategoryUnpublished(p) ==
    /\ posts[p].category \in DOMAIN categories
    /\ ~categories[posts[p].category].is_published

MissingPostId == CHOOSE n \in UrlPostIds : n \notin PostIds

(* C1: a post that is unpublished or dated in the future is never returned  *)
(* by a view that goes through get_filtered_related_posts to an identity    *)
(* other than the post's author.                                            *)
C1_HiddenFromNonAuthors ==
    request.view \in FilterViews =>
        \A p \in DOMAIN posts :
            (Returned(p) /\ NotYetVisible(p)) => posts[p].author = request.user

C1_Witness ==
    /\ request.view = "profile"
    /\ response.status = 200
    /\ \E p \in DOMAIN posts :
          /\ NotYetVisible(p)
          /\ CategoryPublished(p)
          /\ posts[p].author = request.name
          /\ request.user \in Users \ {posts[p].author}

C3_DenyIsRedirect ==
    (request.user \in Users /\ request.method = "POST") =>
        /\ (/\ request.view \in {"post_edit", "post_delete"}
            /\ request.post_id \in DOMAIN posts
            /\ posts[request.post_id].author # request.user) =>
              response = redirect(Url("blog:post_detail", request.post_id, "none"))
        /\ (/\ request.view \in {"comment_edit", "comment_delete"}
            /\ request.comment_id \in DOMAIN comments
            /\ comments[request.comment_id].author # request.user) =>
              response = redirect(Url("blog:post_detail",
                                      comments[request.comment_id].post, "none"))

(* C4: a step that serves a request changes or removes an existing post     *)
(* only when the requesting identity is the post's author, and an existing  *)
(* comment only when the identity is the comment's author or is the author  *)
(* of the comment's post deleting that post.                                *)
C4_OnlyAuthorsMutate ==
    [][request' # NoRequest =>
        /\ \A p \in DOMAIN posts :
              (p \notin DOMAIN posts' \/ posts'[p] # posts[p]) =>
                  request'.user = posts[p].author
        /\ \A c \in DOMAIN comments :
              (c \notin DOMAIN comments' \/ comments'[c] # comments[c]) =>
                  \/ request'.user = comments[c].author
                  \/ /\ request'.view = "post_delete"
                     /\ request'.post_id = comments[c].post
                     /\ comments[c].post \notin DOMAIN posts'
                     /\ request'.user = posts[comments[c].post].author]_vars

C4_Witness ==
    /\ request.view = "post_edit"
    /\ request.method = "POST"
    /\ request.valid
    /\ request.user \in Users
    /\ request.post_id \in DOMAIN posts
    /\ posts[request.post_id].author # request.user
    /\ response.status = 302
    /\ \E c \in DOMAIN comments : comments[c].author = request.user

(* C5: the post detail view returns an unpublished post (category           *)
(* published) to its author and answers NotFound to every other identity;   *)
(* it returns a published post with a past date and a published category to *)
(* every identity.                                                          *)
C5_PostDetail ==
    (request.view = "post_detail" /\ request.post_id \in DOMAIN posts) =>
        LET p == request.post_id
        IN  /\ (~posts[p].is_published /\ CategoryPublished(p)) =>
                  IF posts[p].author = request.user
                  THEN response.status = 200 /\ response.objects = <<p>>
                  ELSE response.status = 404
            /\ (posts[p].is_published /\ posts[p].pub_date <= now
                /\ CategoryPublished(p)) =>
                  (response.status = 200 /\ response.objects = <<p>>)

C5_Witness ==
    /\ request.view = "post_detail"
    /\ request.post_id \in DOMAIN posts
    /\ ~posts[request.post_id].is_published
    /\ CategoryPublished(request.post_id)
    /\ posts[request.post_id].author = request.user
    /\ response.status = 200

(* C6 as claimed: to an identity that is not the author of a non-public     *)
(* post, a request naming that post (detail, edit, delete, comment create)  *)
(* has the outcome of the same request naming a post id that is not in the  *)
(* store.                                                                   *)
C6_HiddenLooksAbsent ==
    (/\ request.view \in {"post_detail", "post_edit", "post_delete", "comment_create"}
     /\ request.post_id \in DOMAIN posts
     /\ ~PublicFilter(request.post_id)
     /\ posts[request.post_id].author # request.user) =>
        LET u == request.user
            m == request.method
            v == request.valid
            absent ==
                IF request.view = "post_detail"
                THEN PostDetailView_dispatch(u, MissingPostId)
                ELSE IF request.view = "post_edit"
                THEN PostEditView_dispatch(u, m, v, MissingPostId,
                                           CHOOSE f \in PostForm : TRUE).response
                ELSE IF request.view = "post_delete"
                THEN PostDeleteView_dispatch(u, m, MissingPostId).response
                ELSE CommentCreateView_dispatch(u, m, v, MissingPostId,
                                                CHOOSE f \in CommentForm : TRUE).response
        IN  /\ response.status = absent.status
            /\ response.template = absent.template
            /\ response.to.name = absent.to.name

(* C7 as claimed: every mutation request of an anonymous identity is        *)
(* answered with the redirect to the login page.                            *)
C7_AnonymousToLogin ==
    (/\ request.view \in MutationViews
     /\ request.method = "POST"
     /\ is_anonymous(request.user)) =>
        response = redirect_to_login

(* C8: the category page answers NotFound for a category that is missing or *)
(* unpublished, whoever asks; for a published category it lists exactly the *)
(* posts of that category that are published and not dated in the future,   *)
(* the requesting author's own hidden posts not among them.                 *)
C8_CategoryPage ==
    request.view = "category" =>
        IF request.name \in DOMAIN categories /\ categories[request.name].is_published
        THEN /\ response.status = 200
             /\ ReturnedSet = {p \in DOMAIN posts :
                                  /\ posts[p].category = request.name
                                  /\ posts[p].is_published
                                  /\ posts[p].pub_date <= now}
             /\ Len(response.objects) = Cardinality(ReturnedSet)
        ELSE response.status = 404

C8_Witness ==
    /\ request.view = "category"
    /\ response.status = 200
    /\ \E p \in DOMAIN posts :
          /\ posts[p].category = request.name
          /\ posts[p].author = request.user
          /\ NotYetVisible(p)

(* C9 as claimed: the list a view returns is ordered by pub_date            *)
(* descending, posts of equal pub_date in insertion order.                  *)
C9_StableOrder ==
    (request.view \in ListViews /\ response.status = 200) =>
        \A i, j \in DOMAIN response.objects :
            i < j =>
                LET a == response.objects[i]
                    b == response.objects[j]
                IN  \/ posts[a].pub_date > posts[b].pub_date
                    \/ (posts[a].pub_date = posts[b].pub_date /\ a < b)

(* C10: a post without a category is returned by no index list and no       *)
(* category page, and by any other view only to its own author.             *)
C10_NoCategoryNeverPublic ==
    \A p \in DOMAIN posts :
        (posts[p].category = NoCategory /\ Returned(p)) =>
            /\ request.view \notin {"index", "category"}
            /\ posts[p].author = request.user

C10_Witness ==
    /\ request.view = "post_detail"
    /\ request.post_id \in DOMAIN posts
    /\ posts[request.post_id].category = NoCategory
    /\ posts[request.post_id].is_published
    /\ posts[request.post_id].pub_date <= now
    /\ posts[request.post_id].author # request.user
    /\ response.status = 404

=============================================================================
